---------------------------- MODULE Spec2Model ----------------------------
(***************************************************************************)
(* The events CRUD route module, 06-database-integration/routes/events.py. *)
(* Every handler is an `async def` without an await in its body, so inside *)
(* one server process a request runs from its first line to its response   *)
(* without interleaving: Spec has one atomic action per handler.  SpecConc *)
(* runs delete_event in two sessions of separate server processes, one     *)
(* step per session call (lookup, delete, commit).                         *)
(***************************************************************************)
EXTENDS Integers, FiniteSets

\* ------------------------------------------------------------- bounds
MaxId == 2

Ids == 1..MaxId

\* ------------------------------------------------- the Event resource
\* models.events is imported at line 5 and is not part of the sources:
\* an Event is a row with an integer primary key id and data columns; an
\* EventUpdate carries the data columns only, each of them optional.
Fields == {"title", "location"}

Values == {"a", "b"}

Null == "null"

Unset == "unset"

Event == [id : Ids, title : Values, location : Values]

EventUpdate == [Fields -> Values \cup {Null, Unset}]

NoArg == "-"

HTTP_404_NOT_FOUND == 404

VARIABLES
    table,      \* the committed rows of the event table
    call,       \* the request handled last: [op, id, data]
    resp,       \* its response: [status, detail, message, rows]
    prev,       \* the table when that request arrived
    committed,  \* whether that request committed a transaction
    deleted,    \* history: ids deleted by delete_event and not created since
    created,    \* history: events created, not updated or deleted since
    spc,        \* SpecConc: each session's position in delete_event
    sid,        \* SpecConc: each session's path parameter id
    sevent,     \* SpecConc: each session's looked-up event ({} for None)
    sresp,      \* SpecConc: each session's response
    table0      \* SpecConc: the table when the two requests arrived

vars == <<table, call, resp, prev, committed, deleted, created,
          spc, sid, sevent, sresp, table0>>

seqvars == <<call, resp, prev, committed, deleted, created>>

concvars == <<spc, sid, sevent, sresp, table0>>

\* ------------------------------------------------- session operations
\* session.get(Event, id): the row with that primary key, {} for None.
session_get(t, id) == {r \in t : r.id = id}

\* session.exec(select(Event)).all()
select_all(t) == t

\* The primary keys of a table.
Keys(t) == {r.id : r \in t}

\* A table holds at most one row per primary key.
PrimaryKey(t) == \A r1, r2 \in t : r1.id = r2.id => r1 = r2

Cell == Values \cup {Null}

\* Every table the handlers can leave behind: one row per key of a key set.
Tables ==
    UNION {{{[id |-> i, title |-> f[i][1], location |-> f[i][2]] : i \in K} :
              f \in [K -> Cell \X Cell]} : K \in SUBSET Ids}

\* ---------------------------------------------------------- responses
Response(status, detail, message, rows) ==
    [status |-> status, detail |-> detail, message |-> message, rows |-> rows]

HTTPException(status_code, detail) == Response(status_code, detail, "", {})

NotFound == HTTPException(HTTP_404_NOT_FOUND, "Event with supplied ID does not exist")

Message(m) == Response(200, "", m, {})

Returned(rows) == Response(200, "", "", rows)

\* No request handled yet.
NoResponse == Response(0, "", "", {})

\* An exception no handler catches: the framework answers 500.
ServerError == HTTPException(500, "Internal Server Error")

Call(op, id, data) == [op |-> op, id |-> id, data |-> data]


\* ------------------------------------------------------------ handlers
\* Mutant: an empty table answered with 404 instead of an empty list.
retrieve_all_events_response_404(t) ==
    IF select_all(t) = {} THEN NotFound ELSE Returned(select_all(t))

\* GET "/": lines 12-16.
retrieve_all_events_response(t) == Returned(select_all(t))

retrieve_all_events ==
    /\ call' = Call("retrieve_all_events", NoArg, NoArg)
    /\ resp' = retrieve_all_events_response(table)
    /\ prev' = table
    /\ committed' = FALSE
    /\ UNCHANGED <<table, deleted, created, concvars>>

\* Mutant: the `if not event` check left out.
retrieve_event_response_unchecked(t, id) == Returned(session_get(t, id))

\* GET "/{id}": lines 19-27.
retrieve_event_response(t, id) ==
    LET event == session_get(t, id)
    IN  IF event = {} THEN NotFound ELSE Returned(event)

retrieve_event(id) ==
    /\ call' = Call("retrieve_event", id, NoArg)
    /\ resp' = retrieve_event_response(table, id)
    /\ prev' = table
    /\ committed' = FALSE
    /\ UNCHANGED <<table, deleted, created, concvars>>

\* POST "/new": lines 30-37.  session.add queues an INSERT; session.commit
\* flushes it, and the database rejects a second row with the same primary
\* key: the IntegrityError leaves the handler uncaught and nothing is
\* committed.
create_event_conflict(t, new_event) == session_get(t, new_event.id) # {}

\* Mutant: session.merge instead of session.add, replacing the stored row.
create_event_table_merge(t, new_event) ==
    {r \in t : r.id # new_event.id} \cup {new_event}

create_event_table(t, new_event) ==
    IF create_event_conflict(t, new_event) THEN t ELSE t \cup {new_event}

create_event_response(t, new_event) ==
    IF create_event_conflict(t, new_event)
    THEN ServerError
    ELSE Message("Event created successfully")

create_event(new_event) ==
    /\ call' = Call("create_event", new_event.id, new_event)
    /\ table' = create_event_table(table, new_event)
    /\ resp' = create_event_response(table, new_event)
    /\ prev' = table
    /\ committed' = ~create_event_conflict(table, new_event)
    /\ deleted' = IF create_event_conflict(table, new_event)
                  THEN deleted ELSE deleted \ {new_event.id}
    /\ created' = IF create_event_conflict(table, new_event)
                  THEN created ELSE created \cup {new_event}
    /\ UNCHANGED concvars

\* PUT "/edit/{id}": lines 40-57.
\* Mutant: exclude_none=True, dropping the nulls the payload sets.
model_dump_exclude_none(new_data) ==
    {k \in Fields : new_data[k] \notin {Unset, Null}}

\* new_data.model_dump(exclude_unset=True), line 49: the fields the payload
\* sets, a null among them.
model_dump_exclude_unset(new_data) ==
    {k \in Fields : new_data[k] # Unset}

\* for key, value in event_data.items(): setattr(event, key, value)
setattr_all(event, new_data) ==
    LET event_data == model_dump_exclude_unset(new_data)
    IN  [id       |-> event.id,
         title    |-> IF "title" \in event_data
                      THEN new_data["title"] ELSE event.title,
         location |-> IF "location" \in event_data
                      THEN new_data["location"] ELSE event.location]

\* Mutant: the payload written as a new row before the existence check.
update_event_table_upsert(t, id, new_data) ==
    {r \in t : r.id # id} \cup
    {setattr_all(e, new_data) :
        e \in IF session_get(t, id) = {}
              THEN {[id |-> id, title |-> Null, location |-> Null]}
              ELSE session_get(t, id)}

\* Mutant: an UPDATE without its WHERE clause.
update_event_table_nowhere(t, id, new_data) ==
    IF session_get(t, id) = {} THEN t
    ELSE {[setattr_all(r, new_data) EXCEPT !.id = r.id] : r \in t}

\* session.add(event); session.commit(): UPDATE ... WHERE id = event.id
update_event_table(t, id, new_data) ==
    LET event == session_get(t, id)
    IN  IF event = {} THEN t
        ELSE {r \in t : r.id # id} \cup {setattr_all(e, new_data) : e \in event}

\* Mutant: the row as it was read, not as it is stored after the commit.
update_event_response_stale(t, id, new_data) ==
    IF session_get(t, id) = {} THEN NotFound ELSE Returned(session_get(t, id))

\* session.refresh(event); return event
update_event_response(t, id, new_data) ==
    LET event == session_get(t, id)
    IN  IF event = {} THEN NotFound
        ELSE Returned(session_get(update_event_table(t, id, new_data), id))

update_event(id, new_data) ==
    /\ call' = Call("update_event", id, new_data)
    /\ table' = update_event_table(table, id, new_data)
    /\ resp' = update_event_response(table, id, new_data)
    /\ prev' = table
    /\ committed' = (session_get(table, id) # {})
    /\ deleted' = deleted
    /\ created' = IF session_get(table, id) = {}
                  THEN created ELSE {e \in created : e.id # id}
    /\ UNCHANGED concvars

\* DELETE "/delete/{id}": lines 60-70.
\* Mutant: the DELETE never reaches the database.
delete_rows_none(t, events) == t

\* session.delete(event); session.commit(): DELETE ... WHERE id = event.id
delete_rows(t, events) == {r \in t : r.id \notin Keys(events)}

\* Mutant: session.commit() left out of delete_event.
delete_event_table_uncommitted(t, id) == t

delete_event_table(t, id) == delete_rows(t, session_get(t, id))

delete_event_response(t, id) ==
    LET event == session_get(t, id)
    IN  IF event = {} THEN NotFound
        ELSE Message("Event deleted successfully")

delete_event(id) ==
    /\ call' = Call("delete_event", id, NoArg)
    /\ table' = delete_event_table(table, id)
    /\ resp' = delete_event_response(table, id)
    /\ prev' = table
    /\ committed' = (session_get(table, id) # {})
    /\ deleted' = IF session_get(table, id) = {}
                  THEN deleted ELSE deleted \cup {id}
    /\ created' = IF session_get(table, id) = {}
                  THEN created ELSE {e \in created : e.id # id}
    /\ UNCHANGED concvars

\* Mutant: the loop of lines 81-82 stops after its first event.
delete_all_events_table_first(t) ==
    IF select_all(t) = {} THEN t
    ELSE delete_rows(t, {CHOOSE e \in select_all(t) : TRUE})

\* DELETE "/": lines 73-85.
delete_all_events_table(t) ==
    LET events_to_delete == select_all(t)
    IN  IF events_to_delete = {} THEN t ELSE delete_rows(t, events_to_delete)

delete_all_events_response(t) ==
    LET events_to_delete == select_all(t)
    IN  IF events_to_delete = {}
        THEN Message("No events found to delete")
        ELSE Message("All events deleted successfully")

delete_all_events ==
    /\ call' = Call("delete_all_events", NoArg, NoArg)
    /\ table' = delete_all_events_table(table)
    /\ resp' = delete_all_events_response(table)
    /\ prev' = table
    /\ committed' = (select_all(table) # {})
    /\ deleted' = deleted
    /\ created' = {}
    /\ UNCHANGED concvars

\* ------------------------------------------------------- specification
Procs == {1, 2}

Init ==
    /\ table = {}
    /\ call = Call("init", NoArg, NoArg)
    /\ resp = NoResponse
    /\ prev = {}
    /\ committed = FALSE
    /\ deleted = {}
    /\ created = {}
    /\ spc = [p \in Procs |-> "idle"]
    /\ sid = [p \in Procs |-> 1]
    /\ sevent = [p \in Procs |-> {}]
    /\ sresp = [p \in Procs |-> NoResponse]
    /\ table0 = {}

Next ==
    \/ retrieve_all_events
    \/ \E id \in Ids : retrieve_event(id)
    \/ \E new_event \in Event : create_event(new_event)
    \/ \E id \in Ids, new_data \in EventUpdate : update_event(id, new_data)
    \/ \E id \in Ids : delete_event(id)
    \/ delete_all_events

Spec == Init /\ [][Next]_vars


\* -------------------------------------- delete_event in two sessions
\* Two server processes, each with a session of its own (get_session
\* yields one per request), handle one DELETE "/delete/{id}" each.  A step
\* is one session call of lines 62-70.
InitConc ==
    /\ table \in Tables
    /\ table0 = table
    /\ call = Call("init", NoArg, NoArg)
    /\ resp = NoResponse
    /\ prev = {}
    /\ committed = FALSE
    /\ deleted = {}
    /\ created = {}
    /\ spc = [p \in Procs |-> "idle"]
    /\ sid = [p \in Procs |-> 1]
    /\ sevent = [p \in Procs |-> {}]
    /\ sresp = [p \in Procs |-> NoResponse]

\* Lines 62-67: event = session.get(Event, id); 404 if not event.
delete_event_get(p, id) ==
    /\ spc[p] = "idle"
    /\ sid' = [sid EXCEPT ![p] = id]
    /\ sevent' = [sevent EXCEPT ![p] = session_get(table, id)]
    /\ IF session_get(table, id) = {}
       THEN /\ spc' = [spc EXCEPT ![p] = "done"]
            /\ sresp' = [sresp EXCEPT ![p] = NotFound]
       ELSE /\ spc' = [spc EXCEPT ![p] = "found"]
            /\ sresp' = sresp
    /\ UNCHANGED <<table, table0, seqvars>>

\* Line 68: session.delete(event) marks the object in the session; the
\* database sees nothing before the flush.
delete_event_mark(p) ==
    /\ spc[p] = "found"
    /\ spc' = [spc EXCEPT ![p] = "marked"]
    /\ UNCHANGED <<table, table0, sid, sevent, sresp, seqvars>>

\* Lines 69-70: session.commit() flushes DELETE ... WHERE id = event.id and
\* commits.  When the row is gone already the statement matches no row;
\* the mapper only warns about the row count, the commit succeeds and the
\* handler returns its message.
delete_event_commit(p) ==
    /\ spc[p] = "marked"
    /\ table' = delete_rows(table, sevent[p])
    /\ spc' = [spc EXCEPT ![p] = "done"]
    /\ sresp' = [sresp EXCEPT ![p] = Message("Event deleted successfully")]
    /\ UNCHANGED <<table0, sid, sevent, seqvars>>

NextConc ==
    \/ \E p \in Procs, id \in Ids : delete_event_get(p, id)
    \/ \E p \in Procs : delete_event_mark(p)
    \/ \E p \in Procs : delete_event_commit(p)

SpecConc == InitConc /\ [][NextConc]_vars


\* -------------------------------------------------------------- claims
\* The row of table t with primary key id, as a set ({} when absent).
RowOf(t, id) == {r \in t : r.id = id}

\* The rows of table t with another primary key than id.
Others(t, id) == {r \in t : r.id # id}

\* The table keeps its primary key, and the history variables follow it.
TypeOK ==
    /\ table \in Tables
    /\ prev \in Tables
    /\ PrimaryKey(table)
    /\ deleted \subseteq Ids
    /\ created \subseteq table

\* C1: retrieve_event(id) returns exactly the row with primary key id when
\* it exists, and otherwise raises 404 "Event with supplied ID does not
\* exist" and returns no row.
C1_RetrieveEvent ==
    call.op = "retrieve_event" =>
        IF RowOf(prev, call.id) # {}
        THEN /\ resp.status = 200
             /\ resp.rows = RowOf(prev, call.id)
             /\ Cardinality(resp.rows) = 1
        ELSE /\ resp.status = HTTP_404_NOT_FOUND
             /\ resp.detail = "Event with supplied ID does not exist"
             /\ resp.rows = {}

C1_Witness ==
    /\ call.op = "retrieve_event"
    /\ resp.status = 200
    /\ Cardinality(prev) = 2

\* C2 as stated: for every submitted event and every table state,
\* create_event inserts exactly the submitted row, commits and returns
\* "Event created successfully".
C2_Original ==
    call.op = "create_event" =>
        /\ table = prev \cup {call.data}
        /\ Cardinality(table) = Cardinality(prev) + 1
        /\ committed
        /\ resp = Message("Event created successfully")

\* C2 as amended: when no row has the submitted event's primary key,
\* create_event inserts exactly that row, commits and returns "Event created
\* successfully"; when a row has it, the insert is rejected, the table is
\* unchanged, nothing is committed and the request fails with a server
\* error and no success message.
C2_CreateEvent ==
    call.op = "create_event" =>
        IF call.data.id \notin Keys(prev)
        THEN /\ table = prev \cup {call.data}
             /\ Cardinality(table) = Cardinality(prev) + 1
             /\ committed
             /\ resp = Message("Event created successfully")
        ELSE /\ table = prev
             /\ ~committed
             /\ resp.status = 500
             /\ resp.message = ""

C2_Witness ==
    /\ call.op = "create_event"
    /\ call.data.id \in Keys(prev)
    /\ call.data \notin prev
    /\ resp.status = 500

\* C3: update_event(id, new_data) raises 404 "Event with supplied ID does
\* not exist" when no row has primary key id; otherwise it commits and
\* returns the row with primary key id as stored after the update.
C3_UpdateEvent ==
    call.op = "update_event" =>
        IF RowOf(prev, call.id) = {}
        THEN resp = NotFound
        ELSE /\ committed
             /\ resp.status = 200
             /\ resp.rows = RowOf(table, call.id)
             /\ Cardinality(resp.rows) = 1

C3_Witness ==
    /\ call.op = "update_event"
    /\ resp.status = 200
    /\ resp.rows # RowOf(prev, call.id)

\* C4 (effect): delete_event(id) on an existing row removes exactly that
\* row, commits and returns "Event deleted successfully"; on an absent id
\* it raises 404.
C4_Effect ==
    call.op = "delete_event" =>
        IF RowOf(prev, call.id) # {}
        THEN /\ table = prev \ RowOf(prev, call.id)
             /\ Others(table, call.id) = Others(prev, call.id)
             /\ Cardinality(table) = Cardinality(prev) - 1
             /\ committed
             /\ resp = Message("Event deleted successfully")
        ELSE resp.status = HTTP_404_NOT_FOUND

\* C4 (following calls): a retrieve_event(id) or delete_event(id) on an id
\* that was deleted, with no create_event of it since, raises 404.
C4_Following ==
    \A i \in deleted :
        (call'.op \in {"retrieve_event", "delete_event"} /\ call'.id = i)
            => resp'.status = HTTP_404_NOT_FOUND

\* C4: delete_event(id) removes exactly the row with primary key id and
\* returns its message, so that a following retrieve_event(id) or
\* delete_event(id) with no create in between raises 404; on an absent id it
\* raises 404.
C4_DeleteEvent == [](C4_Effect) /\ [][C4_Following]_vars

C4_Witness ==
    /\ call.op = "delete_event"
    /\ call.id \in deleted
    /\ resp.status = HTTP_404_NOT_FOUND
    /\ table # {}

\* C5 (effect): delete_all_events returns "No events found to delete"
\* exactly when the table is empty at the call; otherwise it deletes every
\* row, commits and returns "All events deleted successfully"; the table is
\* empty afterwards in both cases.
C5_Effect ==
    call.op = "delete_all_events" =>
        /\ table = {}
        /\ (resp = Message("No events found to delete")) <=> (prev = {})
        /\ prev = {} => ~committed
        /\ prev # {} =>
              /\ committed
              /\ resp = Message("All events deleted successfully")

\* C5 (second call): a delete_all_events directly after a delete_all_events
\* returns "No events found to delete".
C5_Second ==
    (call.op = "delete_all_events" /\ call'.op = "delete_all_events")
        => resp' = Message("No events found to delete")

\* C5: delete_all_events tells "none found" from "all deleted", leaves the
\* table empty, and a second call directly after always returns "No events
\* found to delete".
C5_DeleteAllEvents == [](C5_Effect) /\ [][C5_Second]_vars

C5_Witness ==
    /\ call.op = "delete_all_events"
    /\ Cardinality(prev) = 2
    /\ resp = Message("All events deleted successfully")
    /\ table = {}

\* C6: retrieve_all_events returns exactly the rows of the table, an empty
\* list (never a 404) when the table is empty, and leaves the table
\* unchanged.
C6_RetrieveAllEvents ==
    call.op = "retrieve_all_events" =>
        /\ resp.status = 200
        /\ resp.rows = prev
        /\ table = prev
        /\ ~committed

C6_Witness ==
    /\ call.op = "retrieve_all_events"
    /\ prev = {}
    /\ resp.status = 200
    /\ resp.rows = {}
    /\ deleted # {}

\* C7: update_event on an existing row overwrites every field the payload
\* sets with the payload's value (a null too), keeps every field the
\* payload does not set, and changes no other row.
C7_PartialUpdate ==
    (call.op = "update_event" /\ RowOf(prev, call.id) # {}) =>
        /\ Others(table, call.id) = Others(prev, call.id)
        /\ \E old \in RowOf(prev, call.id) :
              RowOf(table, call.id) =
                 {[id       |-> call.id,
                   title    |-> IF call.data["title"] # Unset
                                THEN call.data["title"] ELSE old.title,
                   location |-> IF call.data["location"] # Unset
                                THEN call.data["location"] ELSE old.location]}

C7_Witness ==
    /\ call.op = "update_event"
    /\ Cardinality(prev) = 2
    /\ call.data["title"] = Null
    /\ call.data["location"] = Unset
    /\ \E old \in RowOf(prev, call.id), new \in RowOf(table, call.id) :
          /\ old.title \in Values
          /\ new.title = Null
          /\ new.location = old.location

\* C8: a call of retrieve_event, update_event or delete_event that raises
\* 404 leaves the table as it was and commits nothing.
C8_NotFoundNoWrite ==
    (/\ call.op \in {"retrieve_event", "update_event", "delete_event"}
     /\ RowOf(prev, call.id) = {}) =>
        /\ resp.status = HTTP_404_NOT_FOUND
        /\ table = prev
        /\ ~committed

C8_Witness ==
    /\ call.op = "update_event"
    /\ resp.status = HTTP_404_NOT_FOUND
    /\ prev # {}
    /\ call.data["title"] \in Values

\* C9: after create_event(e) succeeded for an event e whose primary key was
\* not in the table, retrieve_event(e.id) returns a row equal to e, also
\* after any calls that are no update_event(e.id), delete_event(e.id) or
\* delete_all_events.
C9_RoundTrip ==
    /\ \A e \in created : retrieve_event_response(table, e.id) = Returned({e})
    /\ call.op = "retrieve_event" =>
          \A e \in created : e.id = call.id => resp = Returned({e})

C9_Witness ==
    /\ call.op = "retrieve_event"
    /\ \E e \in created : e.id = call.id /\ resp.rows = {e}
    /\ \E r \in table : r \notin created /\ r.title = Null

\* Two finished delete_event requests, of sessions p and q, for the same id,
\* which had a row when they arrived.
SameRow(p, q) ==
    /\ p # q
    /\ spc[p] = "done"
    /\ spc[q] = "done"
    /\ sid[p] = sid[q]
    /\ sid[p] \in Keys(table0)

\* C10 as stated: of two interleaved delete_event(id) requests for the same
\* existing id, one returns "Event deleted successfully" and the other
\* raises 404; the row is never reported as deleted twice.
C10_Original ==
    \A p, q \in Procs :
        SameRow(p, q) =>
            \/ /\ sresp[p] = Message("Event deleted successfully")
               /\ sresp[q].status = HTTP_404_NOT_FOUND
            \/ /\ sresp[q] = Message("Event deleted successfully")
               /\ sresp[p].status = HTTP_404_NOT_FOUND

\* C10 as amended: of two interleaved delete_event(id) requests for the
\* same existing id, at least one returns "Event deleted successfully", the
\* row is removed and every other row is unchanged; a request raises 404
\* exactly when its lookup found no row, which happens only after the other
\* request has committed, and a request whose lookup found the row returns
\* "Event deleted successfully" even when the other request has deleted the
\* row in between: the row may be reported as deleted twice.
C10_ConcurrentDelete ==
    /\ \A p, q \in Procs :
          SameRow(p, q) =>
              /\ table = Others(table0, sid[p])
              /\ \E r \in {p, q} :
                    sresp[r] = Message("Event deleted successfully")
              /\ \A r \in {p, q} :
                    sresp[r] = IF sevent[r] = {}
                               THEN NotFound
                               ELSE Message("Event deleted successfully")
    /\ \A p \in Procs :
          (spc[p] # "idle" /\ sid[p] \in Keys(table0) /\ sevent[p] = {}) =>
              \E q \in Procs \ {p} :
                  /\ sid[q] = sid[p]
                  /\ spc[q] = "done"
                  /\ sresp[q] = Message("Event deleted successfully")

C10_Witness ==
    /\ Cardinality(table0) = 2
    /\ \E p, q \in Procs :
          /\ SameRow(p, q)
          /\ sresp[p] = Message("Event deleted successfully")
          /\ sresp[q] = Message("Event deleted successfully")
          /\ table = Others(table0, sid[p])

=============================================================================
